---- MODULE Spec2Model ----
(***************************************************************************)
(* Model of the selective-disclosure engine: SDObject (pure, map, flatMap, *)
(* prop, array, nested), sdArray, fillSDOptions and hash.                  *)
(*                                                                         *)
(* A run is one chain of calls starting at SDObject.pure(inputClaimSet).   *)
(* The callbacks handed to flatMap and nested are themselves chains        *)
(* starting at SDObject.pure(...): while a callback runs, its value is the *)
(* top frame of `stack`, and the call completes when the callback returns. *)
(*                                                                         *)
(* Encodings.  base64url and the stringifier are injective encodings of    *)
(* the tuple they are given, and a hash output determines its input and    *)
(* the primitive that produced it (collision resistance); so a disclosure  *)
(* is modelled by the tuple it encodes, and a digest by the pair of the    *)
(* primitive and the disclosure, together with the identifier that was     *)
(* handed to hash().  Salts come from the random source: every draw is new.*)
(***************************************************************************)
EXTENDS Integers, Sequences, FiniteSets, TLC

VARIABLES stack, salt, ops, last

vars == <<stack, salt, ops, last>>

\* ---------------------------------------------------------------- bounds
MaxOps == 3
MaxDepth == 2
MaxNames == 2
MaxIndices == 2
MaxArrLen == 2

\* ------------------------------------------------------------- hash.ts
Undef == "undefined"

SDHashAlg ==
    {"sha-256", "sha-256-128", "sha-256-120", "sha-256-96", "sha-256-64",
     "sha-256-32", "sha-384", "sha-512", "sha3-224", "sha3-256", "sha3-384",
     "sha3-512", "blake2s-256", "blake2b-256", "blake2b-512", "k12-256",
     "k12-512"}

SDDefaultHashAlg == "sha-256"

Unsupported == "throw: Unsupported hash algorithm"

translateHashAlg(namedHashAlg) ==
    CASE namedHashAlg = "sha-256" -> "SHA256"
      [] namedHashAlg = "sha-256-128" -> "SHA256-128"
      [] namedHashAlg = "sha-256-120" -> "SHA256-120"
      [] namedHashAlg = "sha-256-96" -> "SHA256-96"
      [] namedHashAlg = "sha-256-64" -> "SHA256-64"
      [] namedHashAlg = "sha-256-32" -> "SHA256-32"
      [] namedHashAlg = "sha-384" -> "SHA3-384"
      [] namedHashAlg = "sha-512" -> "SHA512"
      [] namedHashAlg = "sha3-224" -> "SHA3-224"
      [] namedHashAlg = "sha3-256" -> "SHA3-256"
      [] namedHashAlg = "sha3-384" -> "SHA384"
      [] namedHashAlg = "sha3-512" -> "SHA3-512"
      [] namedHashAlg = "blake2s-256" -> "BLAKE2s256"
      [] namedHashAlg = "blake2b-256" -> "BLAKE2b256"
      [] namedHashAlg = "blake2b-512" -> "BLAKE2b512"
      [] namedHashAlg = "k12-256" -> Unsupported
      [] namedHashAlg = "k12-512" -> Unsupported

\* hash(data, hashAlg) throws when translateHashAlg does.
hashThrows(hashAlg) == translateHashAlg(hashAlg) = Unsupported

\* base64url(hash(data, hashAlg)): the digest of `data`.
hash(data, hashAlg) ==
    [alg |-> hashAlg, prim |-> translateHashAlg(hashAlg), of |-> data]

\* ------------------------------------------------ selective-disclosure.ts
NoError == "ok"
Inconsistent == "Inconsistent hashing algorithms"

\* Mutant: the consistency check is left out.
fillSDOptionsUnchecked(sdProps, options) ==
    LET payloadHashAlg == sdProps._sd_alg
        optionHashAlg == options.hashAlg
        hashAlg == IF payloadHashAlg # Undef THEN payloadHashAlg
                   ELSE IF optionHashAlg # Undef THEN optionHashAlg
                   ELSE SDDefaultHashAlg
    IN  [err |-> NoError, hashAlg |-> hashAlg]

\* Mutant: the caller's hashAlg is checked but never chosen.
fillSDOptionsOptionIgnored(sdProps, options) ==
    LET payloadHashAlg == sdProps._sd_alg
        optionHashAlg == options.hashAlg
        hashAlg == IF payloadHashAlg # Undef THEN payloadHashAlg
                   ELSE SDDefaultHashAlg
    IN  IF payloadHashAlg # Undef /\ optionHashAlg # Undef
           /\ payloadHashAlg # optionHashAlg
        THEN [err |-> Inconsistent, hashAlg |-> hashAlg]
        ELSE [err |-> NoError, hashAlg |-> hashAlg]

fillSDOptions(sdProps, options) ==
    LET payloadHashAlg == sdProps._sd_alg
        optionHashAlg == options.hashAlg
        hashAlg == IF payloadHashAlg # Undef THEN payloadHashAlg
                   ELSE IF optionHashAlg # Undef THEN optionHashAlg
                   ELSE SDDefaultHashAlg
    IN  IF payloadHashAlg # Undef /\ optionHashAlg # Undef
           /\ payloadHashAlg # optionHashAlg
        THEN [err |-> Inconsistent, hashAlg |-> hashAlg]
        ELSE [err |-> NoError, hashAlg |-> hashAlg]

\* ----------------------------------------------------------------- values
Str(s) == [t |-> "str", s |-> s]
Arr(elems) == [t |-> "arr", elems |-> elems]
Obj(claims) == [t |-> "obj", claims |-> claims]

Range(s) == {s[i] : i \in DOMAIN s}

\* ------------------------------------------------------------ SDArray.ts
arrayElementDigest(digest) == [t |-> "dots", digest |-> digest]

disclosureForArrayElement(aSalt, element) ==
    [salt |-> aSalt, value |-> element]

\* Mutant: the marker is placed but its disclosure is not kept.
sdArrayStepNoDisclosure(acc, e, index, indices, hashAlg) ==
    IF acc.err # NoError THEN acc
    ELSE IF index \in Range(indices)
    THEN LET disclosure == disclosureForArrayElement(acc.salt + 1, e)
         IN  IF hashThrows(hashAlg)
             THEN [acc EXCEPT !.err = Unsupported, !.salt = @ + 1]
             ELSE [acc EXCEPT
                     !.sdArray = Append(@, arrayElementDigest(hash(disclosure, hashAlg))),
                     !.salt = @ + 1]
    ELSE [acc EXCEPT !.sdArray = Append(@, e)]

\* Mutant: a redacted element is removed instead of replaced by its marker.
sdArrayStepSkips(acc, e, index, indices, hashAlg) ==
    IF acc.err # NoError THEN acc
    ELSE IF index \in Range(indices)
    THEN LET disclosure == disclosureForArrayElement(acc.salt + 1, e)
         IN  IF hashThrows(hashAlg)
             THEN [acc EXCEPT !.err = Unsupported, !.salt = @ + 1]
             ELSE [acc EXCEPT
                     !.disclosures = Append(@, disclosure),
                     !.salt = @ + 1]
    ELSE [acc EXCEPT !.sdArray = Append(@, e)]

\* Mutant: the index list is walked, so a repeated index gives a disclosure
\* per occurrence.
sdArrayStepPerOccurrence(acc, e, index, indices, hashAlg) ==
    IF acc.err # NoError THEN acc
    ELSE IF index \in Range(indices)
    THEN LET n == Cardinality({j \in DOMAIN indices : indices[j] = index})
             made == [j \in 1..n |-> disclosureForArrayElement(acc.salt + j, e)]
         IN  IF hashThrows(hashAlg)
             THEN [acc EXCEPT !.err = Unsupported, !.salt = @ + 1]
             ELSE [acc EXCEPT
                     !.sdArray = Append(@, arrayElementDigest(hash(made[n], hashAlg))),
                     !.disclosures = @ \o made,
                     !.salt = @ + n]
    ELSE [acc EXCEPT !.sdArray = Append(@, e)]

\* One step of the reduce of sdArray, at the 0-based position index.
sdArrayStep(acc, e, index, indices, hashAlg) ==
    IF acc.err # NoError THEN acc
    ELSE IF index \in Range(indices)
    THEN LET disclosure == disclosureForArrayElement(acc.salt + 1, e)
         IN  IF hashThrows(hashAlg)
             THEN [acc EXCEPT !.err = Unsupported, !.salt = @ + 1]
             ELSE [acc EXCEPT
                     !.sdArray = Append(@, arrayElementDigest(hash(disclosure, hashAlg))),
                     !.disclosures = Append(@, disclosure),
                     !.salt = @ + 1]
    ELSE [acc EXCEPT !.sdArray = Append(@, e)]

RECURSIVE sdArrayReduce(_, _, _, _, _)
sdArrayReduce(acc, array, k, indices, hashAlg) ==
    IF k > Len(array) THEN acc
    ELSE sdArrayReduce(sdArrayStep(acc, array[k], k - 1, indices, hashAlg),
                       array, k + 1, indices, hashAlg)

\* sdArray(array, indices, disclosureOptions), drawing salts after aSalt.
sdArray(array, indices, hashAlg, aSalt) ==
    sdArrayReduce([sdArray |-> <<>>, disclosures |-> <<>>, salt |-> aSalt,
                   err |-> NoError],
                  array, 1, indices, hashAlg)

\* ------------------------------------------------------------ SDObject.ts
SDObject(payload, disclosures) ==
    [sdObject |-> payload, disclosures |-> disclosures]

\* What an operation yields: a value, or an error and no value.
Returns(val, aSalt) == [err |-> NoError, val |-> val, salt |-> aSalt]
Throws(err, self, aSalt) == [err |-> err, val |-> self, salt |-> aSalt]

\* The reserved key _sd_alg of an object; a plain object has none.
sdAlgOf(object) == IF object.t = "sd" THEN object._sd_alg ELSE Undef

\* SDObject.pure(object): { ...object, _sd: [] } with no disclosures.
pure(object) ==
    SDObject([t |-> "sd", claims |-> object.claims, _sd |-> <<>>,
              _sd_alg |-> sdAlgOf(object)], <<>>)

\* The transforms handed to map in this model.
MapFs == {"id", "set", "forge"}

applyF(f, payload) ==
    CASE f = "id" -> payload
      [] f = "set" ->
           [payload EXCEPT !.claims =
              [n \in DOMAIN payload.claims \cup {"a"} |->
                 IF n = "a" THEN Str("m") ELSE payload.claims[n]]]
      [] f = "forge" -> [payload EXCEPT !._sd = <<>>, !._sd_alg = "sha-512"]

\* map(f): { ...f(this._sdObject), _sd_alg, _sd } with the same disclosures.
map(self, f) ==
    Returns(SDObject([applyF(f, self.sdObject) EXCEPT
                        !._sd_alg = self.sdObject._sd_alg,
                        !._sd = self.sdObject._sd],
                     self.disclosures), 0)

\* nullish coalescing with the default algorithm
orDefault(alg) == IF alg = Undef THEN SDDefaultHashAlg ELSE alg

\* Mutant: the declared algorithms are compared without the default.
flatMapRawCompare(self, newSdObj) ==
    LET pSdAlg == self.sdObject._sd_alg
        pSd == self.sdObject._sd
        nSdAlg == newSdObj.sdObject._sd_alg
        nSd == newSdObj.sdObject._sd
    IN  IF pSdAlg # nSdAlg
        THEN Throws(Inconsistent, self, 0)
        ELSE Returns(SDObject([newSdObj.sdObject EXCEPT !._sd = pSd \o nSd],
                              self.disclosures \o newSdObj.disclosures), 0)

\* Mutant: the receiver's digests are not carried into the merged _sd.
flatMapDropsOwnSd(self, newSdObj) ==
    LET pSdAlg == self.sdObject._sd_alg
        nSdAlg == newSdObj.sdObject._sd_alg
    IN  IF orDefault(pSdAlg) # orDefault(nSdAlg)
        THEN Throws(Inconsistent, self, 0)
        ELSE Returns(SDObject(newSdObj.sdObject,
                              self.disclosures \o newSdObj.disclosures), 0)

\* Mutant: the merged digests are put on the receiver's payload, not on the
\* payload the callback returned.
flatMapKeepsOwnPayload(self, newSdObj) ==
    LET pSdAlg == self.sdObject._sd_alg
        pSd == self.sdObject._sd
        nSdAlg == newSdObj.sdObject._sd_alg
        nSd == newSdObj.sdObject._sd
    IN  IF orDefault(pSdAlg) # orDefault(nSdAlg)
        THEN Throws(Inconsistent, self, 0)
        ELSE Returns(SDObject([self.sdObject EXCEPT !._sd = pSd \o nSd],
                              self.disclosures \o newSdObj.disclosures), 0)

\* flatMap(f), where newSdObj is what f(this._sdObject) returned.
flatMap(self, newSdObj) ==
    LET pSdAlg == self.sdObject._sd_alg
        pSd == self.sdObject._sd
        nSdAlg == newSdObj.sdObject._sd_alg
        nSd == newSdObj.sdObject._sd
    IN  IF orDefault(pSdAlg) # orDefault(nSdAlg)
        THEN Throws(Inconsistent, self, 0)
        ELSE Returns(SDObject([newSdObj.sdObject EXCEPT !._sd = pSd \o nSd],
                              self.disclosures \o newSdObj.disclosures), 0)

disclosureForObjectProps(aSalt, claimName, claimValue) ==
    [salt |-> aSalt, name |-> claimName, value |-> claimValue]

\* Mutant: _sd is replaced by the new digests instead of extended.
propResetsSd(self, claimNames, options, aSalt) ==
    LET payload == self.sdObject
        disclosures == self.disclosures
        filled == fillSDOptions(payload, options)
        hashAlg == filled.hashAlg
        n == Len(claimNames)
        made == [i \in 1..n |->
                   disclosureForObjectProps(aSalt + i, claimNames[i],
                                            payload.claims[claimNames[i]])]
        disclosureDigests == [i \in 1..n |-> hash(made[i], hashAlg)]
        newPayload ==
            [payload EXCEPT
               !._sd = disclosureDigests,
               !._sd_alg = hashAlg,
               !.claims = [c \in DOMAIN @ \ Range(claimNames) |-> @[c]]]
    IN  IF filled.err # NoError THEN Throws(filled.err, self, aSalt)
        ELSE IF n > 0 /\ hashThrows(hashAlg)
        THEN Throws(Unsupported, self, aSalt + n)
        ELSE Returns(SDObject(newPayload, disclosures \o made), aSalt + n)

\* Mutant: an unsupported algorithm is rejected as soon as it is named.
propRejectsAtNaming(self, claimNames, options, aSalt) ==
    LET payload == self.sdObject
        disclosures == self.disclosures
        filled == fillSDOptions(payload, options)
        hashAlg == filled.hashAlg
        n == Len(claimNames)
        made == [i \in 1..n |->
                   disclosureForObjectProps(aSalt + i, claimNames[i],
                                            payload.claims[claimNames[i]])]
        disclosureDigests == [i \in 1..n |-> hash(made[i], hashAlg)]
        newPayload ==
            [payload EXCEPT
               !._sd = @ \o disclosureDigests,
               !._sd_alg = hashAlg,
               !.claims = [c \in DOMAIN @ \ Range(claimNames) |-> @[c]]]
    IN  IF filled.err # NoError THEN Throws(filled.err, self, aSalt)
        ELSE IF hashThrows(hashAlg)
        THEN Throws(Unsupported, self, aSalt + n)
        ELSE Returns(SDObject(newPayload, disclosures \o made), aSalt + n)

\* prop(claimNames, options), drawing salts after aSalt.
prop(self, claimNames, options, aSalt) ==
    LET payload == self.sdObject
        disclosures == self.disclosures
        filled == fillSDOptions(payload, options)
        hashAlg == filled.hashAlg
        n == Len(claimNames)
        made == [i \in 1..n |->
                   disclosureForObjectProps(aSalt + i, claimNames[i],
                                            payload.claims[claimNames[i]])]
        disclosureDigests == [i \in 1..n |-> hash(made[i], hashAlg)]
        newPayload ==
            [payload EXCEPT
               !._sd = @ \o disclosureDigests,
               !._sd_alg = hashAlg,
               !.claims = [c \in DOMAIN @ \ Range(claimNames) |-> @[c]]]
    IN  IF filled.err # NoError THEN Throws(filled.err, self, aSalt)
        ELSE IF n > 0 /\ hashThrows(hashAlg)
        THEN Throws(Unsupported, self, aSalt + n)
        ELSE Returns(SDObject(newPayload, disclosures \o made), aSalt + n)

\* array(claimName, indices, options), drawing salts after aSalt.
array(self, claimName, indices, options, aSalt) ==
    LET payload == self.sdObject
        disclosures == self.disclosures
        filledSDOptions == fillSDOptions(payload, options)
        claimValueArray == payload.claims[claimName]
        r == sdArray(claimValueArray.elems, indices, filledSDOptions.hashAlg, aSalt)
        newPayload ==
            [payload EXCEPT
               !.claims[claimName] = Arr(r.sdArray),
               !._sd_alg = options.hashAlg]
    IN  IF filledSDOptions.err # NoError
        THEN Throws(filledSDOptions.err, self, aSalt)
        ELSE IF r.err # NoError THEN Throws(r.err, self, r.salt)
        ELSE Returns(SDObject(newPayload, disclosures \o r.disclosures), r.salt)

\* Mutant: the callback's disclosures are put before the receiver's.
nestedPrepends(self, claimName, r) ==
    LET payload == self.sdObject
        disclosures == self.disclosures
        newPayload == [payload EXCEPT !.claims[claimName] = r.sdObject]
    IN  Returns(SDObject(newPayload, r.disclosures \o disclosures), 0)

\* Mutant: nested checks the algorithms as flatMap does.
nestedChecksAlgorithm(self, claimName, r) ==
    LET payload == self.sdObject
        disclosures == self.disclosures
        newPayload == [payload EXCEPT !.claims[claimName] = r.sdObject]
    IN  IF orDefault(payload._sd_alg) # orDefault(r.sdObject._sd_alg)
        THEN Throws(Inconsistent, self, 0)
        ELSE Returns(SDObject(newPayload, disclosures \o r.disclosures), 0)

\* nested(claimName, f), where r is what f(payload[claimName]) returned.
nested(self, claimName, r) ==
    LET payload == self.sdObject
        disclosures == self.disclosures
        newPayload == [payload EXCEPT !.claims[claimName] = r.sdObject]
    IN  Returns(SDObject(newPayload, disclosures \o r.disclosures), 0)

\* ------------------------------------------------------- the state machine
\* Inputs of the calls.
OptionAlgs == {Undef, "sha-256", "sha-384", "k12-256"}
Options == [hashAlg : OptionAlgs]

SeqsUpTo(S, n) == UNION {[1..k -> S] : k \in 0..n}

Num(i) == [t |-> "num", n |-> i]

\* The claim sets the chains start from: a scalar, an array, an object.
inputClaimSets ==
    {[n \in {"a", "arr", "obj"} |->
        CASE n = "a" -> Str("x")
          [] n = "arr" -> Arr([i \in 1..len |-> Num(i)])
          [] n = "obj" -> Obj([c \in {"c"} |-> Str("z")])] : len \in 0..MaxArrLen}

top == stack[Len(stack)]
cur == top.val
below == stack[Len(stack) - 1]

Frame(val, kind, name) == [val |-> val, kind |-> kind, name |-> name]
SetTop(val) == [stack EXCEPT ![Len(stack)].val = val]
Pop(val) == [i \in 1..(Len(stack) - 1) |->
               IF i = Len(stack) - 1 THEN [stack[i] EXCEPT !.val = val]
               ELSE stack[i]]

IsArray(v) == v.t = "arr"
IsObject(v) == v.t \in {"obj", "sd"}

\* The objects a call can reach by reference: the receiver's payload and
\* disclosures, those of the value its callback returned (the receiver's own
\* when there is no callback), and the payload object the call creates.
NotCreated == [t |-> "none"]

Store(self, arg) ==
    [payload |-> self.sdObject, disclosures |-> self.disclosures,
     argPayload |-> arg.sdObject, argDisclosures |-> arg.disclosures,
     newPayload |-> NotCreated]

\* for (...) delete object[claimName]: the only statement of SDObject that
\* writes into an existing object.
deleteClaims(store, object, claimNames) ==
    [store EXCEPT
       ![object].claims = [c \in DOMAIN @ \ Range(claimNames) |-> @[c]]]

\* Mutant: the claims are deleted from the receiver's payload, as happens
\* when newPayload is the payload itself and not a spread copy of it.
propWritesInPlace(store, claimNames, options) ==
    LET filled == fillSDOptions(store.payload, options)
        created == [store EXCEPT
                      !.newPayload = [store.payload EXCEPT
                                        !._sd_alg = filled.hashAlg]]
    IN  IF \/ filled.err # NoError
           \/ Len(claimNames) > 0 /\ hashThrows(filled.hashAlg)
        THEN store
        ELSE deleteClaims(deleteClaims(created, "newPayload", claimNames),
                          "payload", claimNames)

\* What prop writes: nothing when it throws (fillSDOptions and hash throw
\* before any object is built); else newPayload, a spread copy of the payload,
\* is created and the claims are deleted from that copy.
propWrites(store, claimNames, options) ==
    LET filled == fillSDOptions(store.payload, options)
        created == [store EXCEPT
                      !.newPayload = [store.payload EXCEPT
                                        !._sd_alg = filled.hashAlg]]
    IN  IF \/ filled.err # NoError
           \/ Len(claimNames) > 0 /\ hashThrows(filled.hashAlg)
        THEN store
        ELSE deleteClaims(created, "newPayload", claimNames)

\* The reachable objects after a call.  map, flatMap, array and nested only
\* build new objects and arrays by spreading; none assigns to or deletes from
\* an object it was given.
storeAfter(op, recv, claimNames, options, arg) ==
    IF op = "prop" THEN propWrites(Store(recv, arg), claimNames, options)
    ELSE Store(recv, arg)

\* The record of the last completed call: its receiver, arguments and outcome,
\* and the objects it could reach as it left them.
Call(op, recv, r, claimNames, indices, options, arg) ==
    [op |-> op, recv |-> recv, err |-> r.err, res |-> r.val,
     names |-> claimNames, indices |-> indices, hashAlg |-> options.hashAlg,
     arg |-> arg,
     store |-> storeAfter(op, recv, claimNames, options, arg)]

NoOptions == [hashAlg |-> Undef]

Init ==
    /\ \E object \in inputClaimSets :
         /\ stack = <<Frame(pure(Obj(object)), "root", "-")>>
         /\ last = Call("pure", pure(Obj(object)), Returns(pure(Obj(object)), 0),
                        <<>>, <<>>, NoOptions, pure(Obj(object)))
    /\ salt = 0
    /\ ops = 0

Prop(claimNames, options) ==
    /\ ops < MaxOps
    /\ Range(claimNames) \subseteq DOMAIN cur.sdObject.claims
    /\ LET r == prop(cur, claimNames, options, salt)
       IN  /\ stack' = SetTop(r.val)
           /\ salt' = r.salt
           /\ last' = Call("prop", cur, r, claimNames, <<>>, options, cur)
    /\ ops' = ops + 1

Array(claimName, indices, options) ==
    /\ ops < MaxOps
    /\ claimName \in DOMAIN cur.sdObject.claims
    /\ IsArray(cur.sdObject.claims[claimName])
    /\ LET r == array(cur, claimName, indices, options, salt)
       IN  /\ stack' = SetTop(r.val)
           /\ salt' = r.salt
           /\ last' = Call("array", cur, r, <<claimName>>, indices, options, cur)
    /\ ops' = ops + 1

Map(f) ==
    /\ ops < MaxOps
    /\ LET r == map(cur, f)
       IN  /\ stack' = SetTop(r.val)
           /\ last' = Call("map", cur, r, <<>>, <<>>, NoOptions, cur)
    /\ ops' = ops + 1
    /\ UNCHANGED salt

\* flatMap calls f(this._sdObject); f starts a chain at SDObject.pure, of the
\* payload it was given or of that payload without the reserved keys.
FlatMapCall(keep) ==
    /\ ops < MaxOps
    /\ Len(stack) < MaxDepth
    /\ stack' = Append(stack,
                       Frame(pure(IF keep THEN cur.sdObject
                                  ELSE Obj(cur.sdObject.claims)),
                             "flatMap", "-"))
    /\ UNCHANGED <<salt, ops, last>>

\* f returns: flatMap checks the algorithms and merges.
FlatMapReturn ==
    /\ ops < MaxOps
    /\ Len(stack) > 1
    /\ top.kind = "flatMap"
    /\ LET r == flatMap(below.val, cur)
       IN  /\ stack' = Pop(r.val)
           /\ last' = Call("flatMap", below.val, r, <<>>, <<>>, NoOptions, cur)
    /\ ops' = ops + 1
    /\ UNCHANGED salt

\* nested calls f(payload[claimName]); f starts a chain at SDObject.pure of it.
NestedCall(claimName) ==
    /\ ops < MaxOps
    /\ Len(stack) < MaxDepth
    /\ claimName \in DOMAIN cur.sdObject.claims
    /\ IsObject(cur.sdObject.claims[claimName])
    /\ stack' = Append(stack,
                       Frame(pure(cur.sdObject.claims[claimName]), "nested",
                             claimName))
    /\ UNCHANGED <<salt, ops, last>>

NestedReturn ==
    /\ ops < MaxOps
    /\ Len(stack) > 1
    /\ top.kind = "nested"
    /\ LET r == nested(below.val, top.name, cur)
       IN  /\ stack' = Pop(r.val)
           /\ last' = Call("nested", below.val, r, <<top.name>>, <<>>,
                           NoOptions, cur)
    /\ ops' = ops + 1
    /\ UNCHANGED salt

ClaimNames == {"a", "arr", "obj", "c"}

Next ==
    \/ \E claimNames \in SeqsUpTo(ClaimNames, MaxNames), options \in Options :
         Prop(claimNames, options)
    \/ \E claimName \in ClaimNames, indices \in SeqsUpTo(0..MaxArrLen, MaxIndices),
          options \in Options :
         Array(claimName, indices, options)
    \/ \E f \in MapFs : Map(f)
    \/ \E keep \in BOOLEAN : FlatMapCall(keep)
    \/ FlatMapReturn
    \/ \E claimName \in ClaimNames : NestedCall(claimName)
    \/ NestedReturn

Spec == Init /\ [][Next]_vars

\* A chain that uses only prop, array and flatMap.
NextFlat ==
    \/ \E claimNames \in SeqsUpTo(ClaimNames, MaxNames), options \in Options :
         Prop(claimNames, options)
    \/ \E claimName \in ClaimNames, indices \in SeqsUpTo(0..MaxArrLen, MaxIndices),
          options \in Options :
         Array(claimName, indices, options)
    \/ \E keep \in BOOLEAN : FlatMapCall(keep)
    \/ FlatMapReturn

SpecFlat == Init /\ [][NextFlat]_vars

\* ------------------------------------------------------------ the claims
Root == stack[1].val

Ok(op) == last.op = op /\ last.err = NoError
IsPrefix(s, t) == Len(s) <= Len(t) /\ \A i \in DOMAIN s : t[i] = s[i]
After(s, t) == SubSeq(t, Len(s) + 1, Len(t))

recvP == last.recv.sdObject
resP == last.res.sdObject
argP == last.arg.sdObject
addedSd == After(recvP._sd, resP._sd)
addedDisclosures == After(last.recv.disclosures, last.res.disclosures)

\* The array the last array call was about, before and after.
arrBefore == recvP.claims[last.names[1]].elems
arrAfter == resP.claims[last.names[1]].elems
Selected(i) == (i - 1) \in Range(last.indices)
IsMarker(e) == e.t = "dots"

\* C1: at the level of a value built by the chain, every digest in _sd and
\* every digest marker in an array claim was computed under the algorithm
\* that the value's _sd_alg declares (sha-256 when it declares none).
C1_SingleAlgorithm ==
    LET p == Root.sdObject
    IN  /\ \A i \in DOMAIN p._sd : p._sd[i].alg = orDefault(p._sd_alg)
        /\ \A c \in DOMAIN p.claims :
             IsArray(p.claims[c]) =>
               \A i \in DOMAIN p.claims[c].elems :
                 IsMarker(p.claims[c].elems[i]) =>
                   p.claims[c].elems[i].digest.alg = orDefault(p._sd_alg)

\* C2: once a value declares _sd_alg = A, every value produced from it by
\* prop, array, map or flatMap declares _sd_alg = A.
C2_AlgKeyImmutable ==
    (/\ last.op \in {"prop", "array", "map", "flatMap"}
     /\ last.err = NoError
     /\ recvP._sd_alg # Undef)
    => resP._sd_alg = recvP._sd_alg

\* The algorithms the receiver of the last flatMap and the value its callback
\* returned declare.
pAlg == recvP._sd_alg
nAlg == argP._sd_alg

\* C3 as stated: flatMap fails when the two declare different algorithms and
\* succeeds when they declare the same one or exactly one of them declares one.
C3_CombineAsStated ==
    last.op = "flatMap" =>
      /\ (pAlg # Undef /\ nAlg # Undef /\ pAlg # nAlg) => last.err = Inconsistent
      /\ (pAlg = nAlg \/ ((pAlg = Undef) # (nAlg = Undef))) => last.err = NoError

Disagree ==
    \/ pAlg # Undef /\ nAlg # Undef /\ pAlg # nAlg
    \/ pAlg = Undef /\ nAlg # Undef /\ nAlg # "sha-256"
    \/ nAlg = Undef /\ pAlg # Undef /\ pAlg # "sha-256"

\* C3 (amended): flatMap fails with the inconsistent-algorithm error exactly
\* when the two values disagree, a value that declares no algorithm standing
\* for sha-256; when exactly one declares an algorithm the call succeeds only
\* if that algorithm is sha-256.
C3_CombineConsistency ==
    last.op = "flatMap" =>
      /\ Disagree => last.err = Inconsistent
      /\ ~Disagree => last.err = NoError

C3_Witness ==
    /\ Ok("flatMap")
    /\ pAlg = "sha-256"
    /\ nAlg = Undef

\* C4: prop and array fail with the inconsistent-algorithm error, and the
\* holder is left with the receiver, exactly when the payload declares an
\* algorithm, the options give one, and the two differ.
C4_ResolutionRejects ==
    last.op \in {"prop", "array"} =>
      IF recvP._sd_alg # Undef /\ last.hashAlg # Undef
         /\ recvP._sd_alg # last.hashAlg
      THEN last.err = Inconsistent /\ last.res = last.recv
      ELSE last.err # Inconsistent

C4_Witness ==
    /\ last.op = "array"
    /\ last.err = Inconsistent
    /\ recvP._sd_alg = "sha-256"
    /\ last.hashAlg = "sha-384"

\* The effective algorithm of the last prop or array call, as C5 gives it.
effective ==
    IF recvP._sd_alg # Undef THEN recvP._sd_alg
    ELSE IF last.hashAlg # Undef THEN last.hashAlg
    ELSE "sha-256"

\* The hash function an algorithm identifier names in the IANA "Named
\* Information Hash Algorithm" registry, by the name OpenSSL gives it.
namedPrimitive(alg) ==
    CASE alg = "sha-256" -> "SHA256"
      [] alg = "sha-256-128" -> "SHA256-128"
      [] alg = "sha-256-120" -> "SHA256-120"
      [] alg = "sha-256-96" -> "SHA256-96"
      [] alg = "sha-256-64" -> "SHA256-64"
      [] alg = "sha-256-32" -> "SHA256-32"
      [] alg = "sha-384" -> "SHA384"
      [] alg = "sha-512" -> "SHA512"
      [] alg = "sha3-224" -> "SHA3-224"
      [] alg = "sha3-256" -> "SHA3-256"
      [] alg = "sha3-384" -> "SHA3-384"
      [] alg = "sha3-512" -> "SHA3-512"
      [] alg = "blake2s-256" -> "BLAKE2s256"
      [] alg = "blake2b-256" -> "BLAKE2b256"
      [] alg = "blake2b-512" -> "BLAKE2b512"
      [] OTHER -> "none"

\* Every digest a successful prop or array call produces was requested from
\* hash() under the identifier that payload, options and default resolve to.
ResolvedIdentifierRequested ==
    /\ Ok("prop") =>
         /\ Len(addedSd) = Len(last.names)
         /\ \A i \in DOMAIN addedSd : addedSd[i].alg = effective
    /\ Ok("array") =>
         \A i \in DOMAIN arrAfter :
           Selected(i) => /\ IsMarker(arrAfter[i])
                          /\ arrAfter[i].digest.alg = effective

\* C5: every digest a successful prop or array call produces is computed with
\* the effective algorithm: the payload's _sd_alg if declared, else
\* options.hashAlg if given, else sha-256.
C5_EffectiveAlgorithm ==
    /\ Ok("prop") =>
         /\ Len(addedSd) = Len(last.names)
         /\ \A i \in DOMAIN addedSd :
              addedSd[i].prim = namedPrimitive(effective)
    /\ Ok("array") =>
         \A i \in DOMAIN arrAfter :
           Selected(i) => /\ IsMarker(arrAfter[i])
                          /\ arrAfter[i].digest.prim = namedPrimitive(effective)

\* C6 as stated: each prop or array call adds as many digests to _sd as it
\* appends disclosures.
C6_AccountingAsStated ==
    (Ok("prop") \/ Ok("array")) =>
      Len(resP._sd) - Len(recvP._sd)
        = Len(last.res.disclosures) - Len(last.recv.disclosures)

\* C6 (amended): a prop call adds as many digests to _sd as it appends
\* disclosures; an array call leaves _sd as it was and places as many new
\* digest markers in the array as it appends disclosures.
C6_Accounting ==
    /\ Ok("prop") =>
         /\ IsPrefix(recvP._sd, resP._sd)
         /\ IsPrefix(last.recv.disclosures, last.res.disclosures)
         /\ Len(addedSd) = Len(addedDisclosures)
    /\ Ok("array") =>
         /\ resP._sd = recvP._sd
         /\ IsPrefix(last.recv.disclosures, last.res.disclosures)
         /\ Cardinality({i \in DOMAIN arrAfter :
                           i \notin DOMAIN arrBefore \/ arrAfter[i] # arrBefore[i]})
              = Len(addedDisclosures)

C6_Witness ==
    /\ Ok("array")
    /\ Len(addedDisclosures) = 2

IsPropertyDisclosure(d) == "name" \in DOMAIN d

\* How many entries of the sequence sd are the digest of disclosure d, and how
\* many disclosures of the sequence ds the digest g is the digest of.
DigestsOf(d, sd) == Cardinality({i \in DOMAIN sd : sd[i].of = d})
DisclosuresOf(g, ds) == Cardinality({j \in DOMAIN ds : g.of = ds[j]})

\* C7 as stated: every digest in _sd is the digest of exactly one disclosure of
\* the value and none occurs twice, and every disclosure of the value has
\* exactly one digest in _sd.
C7_CorrespondenceAsStated ==
    \A k \in DOMAIN stack :
      LET sd == stack[k].val.sdObject._sd
          ds == stack[k].val.disclosures
      IN  /\ \A i \in DOMAIN sd : DisclosuresOf(sd[i], ds) = 1
          /\ \A i, j \in DOMAIN sd : i # j => sd[i] # sd[j]
          /\ \A j \in DOMAIN ds : DigestsOf(ds[j], sd) = 1

\* C7 (amended): every digest in _sd is the digest of exactly one disclosure of
\* the value and none occurs twice; every disclosure made by property
\* redaction has exactly one digest in _sd, and a disclosure made by array
\* redaction has none there (its digest is a marker in the array).
C7_Correspondence ==
    \A k \in DOMAIN stack :
      LET sd == stack[k].val.sdObject._sd
          ds == stack[k].val.disclosures
      IN  /\ \A i \in DOMAIN sd : DisclosuresOf(sd[i], ds) = 1
          /\ \A i, j \in DOMAIN sd : i # j => sd[i] # sd[j]
          /\ \A j \in DOMAIN ds :
               DigestsOf(ds[j], sd) = IF IsPropertyDisclosure(ds[j]) THEN 1 ELSE 0

C7_Witness ==
    /\ Ok("flatMap")
    /\ Len(recvP._sd) > 0
    /\ Len(argP._sd) > 0

\* C8: a successful call keeps the receiver's disclosures as a prefix of the
\* result's and appends what the call created: nothing for map, the
\* callback's disclosures for flatMap and nested, the new disclosures in
\* order of their salt draws for prop and array; so every value lists its
\* disclosures in order of creation.
C8_AppendOnly ==
    /\ (last.err = NoError /\ last.op # "pure") =>
         /\ IsPrefix(last.recv.disclosures, last.res.disclosures)
         /\ last.op = "map" => addedDisclosures = <<>>
         /\ last.op \in {"flatMap", "nested"} =>
              addedDisclosures = last.arg.disclosures
         /\ last.op \in {"prop", "array"} =>
              \A i \in DOMAIN addedDisclosures :
                addedDisclosures[i].salt = salt - Len(addedDisclosures) + i
         /\ last.op = "prop" =>
              /\ Len(addedDisclosures) = Len(last.names)
              /\ \A i \in DOMAIN addedDisclosures :
                   /\ addedDisclosures[i].name = last.names[i]
                   /\ addedDisclosures[i].value = recvP.claims[last.names[i]]
    /\ \A k \in DOMAIN stack :
         LET ds == stack[k].val.disclosures
         IN  \A i, j \in DOMAIN ds : i < j => ds[i].salt < ds[j].salt

C8_Witness ==
    /\ Ok("nested")
    /\ Len(last.recv.disclosures) > 0
    /\ Len(last.arg.disclosures) > 0

\* C9: prop removes exactly the named claims, keeps the value of every other
\* claim, and keeps the digests already in _sd, in order, before the new ones.
C9_NonDestructive ==
    Ok("prop") =>
      /\ DOMAIN resP.claims = DOMAIN recvP.claims \ Range(last.names)
      /\ \A c \in DOMAIN resP.claims : resP.claims[c] = recvP.claims[c]
      /\ IsPrefix(recvP._sd, resP._sd)

C9_Witness ==
    /\ Ok("prop")
    /\ Len(recvP._sd) > 0
    /\ Len(last.names) > 0
    /\ DOMAIN resP.claims # {}

\* C10: array redaction returns a sequence of the same length in which every
\* position not in the index list holds the original element and every
\* in-range position in the list holds a digest marker for that element.
C10_ArrayShape ==
    Ok("array") =>
      /\ Len(arrAfter) = Len(arrBefore)
      /\ \A i \in DOMAIN arrBefore :
           IF Selected(i)
           THEN /\ IsMarker(arrAfter[i])
                /\ arrAfter[i].digest.of.value = arrBefore[i]
           ELSE arrAfter[i] = arrBefore[i]

C10_Witness ==
    /\ Ok("array")
    /\ Len(arrBefore) = MaxArrLen
    /\ \E i \in DOMAIN arrBefore : Selected(i)
    /\ \E i \in DOMAIN arrBefore : ~Selected(i)
    /\ \E i \in DOMAIN last.indices : last.indices[i] >= Len(arrBefore)

\* The identifiers hash() supports: all but the k12 placeholders.
SupportedHashAlg == SDHashAlg \ {"k12-256", "k12-512"}

\* C11: every digest is computed by the hash function its identifier names:
\* hash(data, a) applies the primitive of a's family and size, and no other
\* identifier's primitive.
C11_HashUnderNamedAlgorithm ==
    LET p == Root.sdObject
        Named(d) ==
            /\ d.alg \in SupportedHashAlg
            /\ d.prim = namedPrimitive(d.alg)
            /\ \A b \in SupportedHashAlg \ {d.alg} : d.prim # namedPrimitive(b)
    IN  /\ \A i \in DOMAIN p._sd : Named(p._sd[i])
        /\ \A c \in DOMAIN p.claims :
             IsArray(p.claims[c]) =>
               \A i \in DOMAIN p.claims[c].elems :
                 IsMarker(p.claims[c].elems[i]) =>
                   Named(p.claims[c].elems[i].digest)

\* C14: after a successful array call the payload's _sd_alg is the algorithm
\* the call resolved and used for its digests: the payload's prior _sd_alg,
\* else options.hashAlg, else sha-256.
C14_ArraySetsResolvedAlgorithm ==
    Ok("array") => resP._sd_alg = effective

Placeholders == {"k12-256", "k12-512"}

\* The positions of the array that the index list of the last array call names.
selectedPositions == {i \in DOMAIN arrBefore : Selected(i)}

\* Whether the last prop or array call had a digest to compute.
digestRequested ==
    IF last.op = "prop" THEN Len(last.names) > 0 ELSE selectedPositions # {}

\* C13: with a k12 placeholder in force, a prop or array call fails with the
\* unsupported-algorithm error if it has a digest to compute (a name, an
\* in-range index), and does not fail if it has none.
C13_UnsupportedAtDigestRequest ==
    (/\ last.op \in {"prop", "array"}
     /\ last.err # Inconsistent
     /\ effective \in Placeholders)
    => IF digestRequested THEN last.err = Unsupported /\ last.res = last.recv
       ELSE last.err = NoError

C13_Witness ==
    /\ last.op = "array"
    /\ last.err = Unsupported
    /\ Len(last.indices) = 2

\* C15: sdArray makes one disclosure and one marker for each in-range position
\* that occurs in the index list, however often it occurs, in position order;
\* out-of-range members produce nothing and no error; with no in-range member
\* the sequence is returned as it was and no disclosure is made.
C15_InRangePositionsOnce ==
    /\ Ok("array") =>
         /\ Len(addedDisclosures) = Cardinality(selectedPositions)
         /\ \A i \in DOMAIN arrBefore :
              Selected(i) <=>
                \E j \in DOMAIN addedDisclosures :
                  /\ i \in DOMAIN arrAfter
                  /\ IsMarker(arrAfter[i])
                  /\ arrAfter[i].digest.of = addedDisclosures[j]
                  /\ addedDisclosures[j].value = arrBefore[i]
                  /\ j = Cardinality({k \in selectedPositions : k <= i})
         /\ selectedPositions = {} =>
              arrAfter = arrBefore /\ addedDisclosures = <<>>
    /\ (/\ last.op = "array"
        /\ last.err # Inconsistent
        /\ (selectedPositions = {} \/ effective \notin Placeholders))
       => last.err = NoError

C15_Witness ==
    /\ Ok("array")
    /\ \E i, j \in DOMAIN last.indices :
         i < j /\ last.indices[i] = last.indices[j] /\ last.indices[i] < Len(arrBefore)

C15_WitnessOutOfRange ==
    /\ Ok("array")
    /\ Len(arrBefore) > 0
    /\ last.indices # <<>>
    /\ selectedPositions = {}

\* C16: a successful flatMap returns the callback's payload with _sd replaced
\* by the receiver's _sd followed by the callback's _sd, and the receiver's
\* disclosures followed by the callback's.
C16_CombineMerge ==
    Ok("flatMap") =>
      /\ resP = [argP EXCEPT !._sd = recvP._sd \o argP._sd]
      /\ last.res.disclosures = last.recv.disclosures \o last.arg.disclosures

C16_Witness ==
    /\ Ok("flatMap")
    /\ Len(recvP._sd) > 0
    /\ Len(argP._sd) > 0
    /\ argP.claims # recvP.claims

\* C17: nested never fails; it replaces the named claim by the callback's
\* payload (with its own _sd and _sd_alg), leaves every other claim and the
\* outer _sd and _sd_alg as they were, and appends the callback's disclosures,
\* also when the callback's algorithm differs from the receiver's.
C17_NestedNoCheck ==
    last.op = "nested" =>
      /\ last.err = NoError
      /\ resP = [recvP EXCEPT !.claims[last.names[1]] = argP]
      /\ resP._sd = recvP._sd
      /\ resP._sd_alg = recvP._sd_alg
      /\ last.res.disclosures = last.recv.disclosures \o last.arg.disclosures

C17_Witness ==
    /\ Ok("nested")
    /\ argP._sd_alg = "sha-384"
    /\ orDefault(recvP._sd_alg) = "sha-256"
    /\ Len(last.arg.disclosures) > 0

\* C12: every call, failing or not, leaves the receiver's payload and
\* disclosures (and those of the value a callback returned) as they were; a
\* failing call yields no value, so the holder is left with the receiver; the
\* payload a successful prop returns is the new object, not the receiver's.
C12_ReceiverUntouched ==
    /\ last.store.payload = last.recv.sdObject
    /\ last.store.disclosures = last.recv.disclosures
    /\ last.store.argPayload = last.arg.sdObject
    /\ last.store.argDisclosures = last.arg.disclosures
    /\ last.err # NoError =>
         /\ last.res = last.recv
         /\ last.store.newPayload = NotCreated
         /\ \E k \in DOMAIN stack : stack[k].val = last.recv
    /\ Ok("prop") =>
         /\ last.store.newPayload.claims = resP.claims
         /\ last.store.newPayload._sd_alg = resP._sd_alg

C12_Witness ==
    /\ last.op = "prop"
    /\ last.err = Unsupported
    /\ Len(last.recv.disclosures) > 0
    /\ Len(last.names) > 0

C12_WitnessSuccess ==
    /\ Ok("prop")
    /\ Len(last.names) > 0
    /\ Len(last.recv.disclosures) > 0

====
